---- MODULE Spec2Model ----
(***************************************************************************)
(* Model of package ehtml (moapis/ehtml): selection of an error page      *)
(* template (Pages.template), rendering through a pooled bytes.Buffer     *)
(* (bufPool, Pages.Render) and the summary string of Data.                 *)
(*                                                                         *)
(* Text is a sequence of chunks (strings).  Every character that           *)
(* html/template escapes is a chunk of its own, so that escaping and       *)
(* partial writes are computed chunk by chunk.  Flatten turns a text into  *)
(* one string.                                                             *)
(***************************************************************************)
EXTENDS Integers, Sequences, FiniteSets, TLC

(***************************************************************************)
(* Bounds of the model.                                                    *)
(***************************************************************************)
NumRenders == 2      \* concurrent Render calls (goroutines)
MaxBufs == 2         \* bytes.Buffer instances alive at one time

Renders == 1..NumRenders
BufIds == 1..MaxBufs
NoBuf == 0

(***************************************************************************)
(* Errors.  An error is the chain of its messages, outermost first; the   *)
(* nil error is the empty chain.  fmt.Errorf("...%w", err) puts a message  *)
(* in front of the chain, errors.Is looks for a target down the chain.     *)
(***************************************************************************)
NilErr == <<>>
ErrClosedPipe == <<"io: read/write on closed pipe">>
ErrShortWrite == <<"short write">>
ErrMissingField == <<"template: can't evaluate field Missing in type *ehtml.Data">>
ErrIncomplete == <<"template: incomplete or empty template">>
TemplatePrefix == "ehtml Render template: "
WritePrefix == "ehtml Render, write to client: "

Errorf(prefix, err) == <<prefix>> \o err

ErrorsIs(err, target) ==
    /\ target # NilErr
    /\ \E i \in 1..Len(err) : SubSeq(err, i, Len(err)) = target

(***************************************************************************)
(* Text helpers.                                                           *)
(***************************************************************************)
RECURSIVE Flatten(_)
Flatten(text) ==
    IF text = <<>> THEN "" ELSE Head(text) \o Flatten(Tail(text))

Min(a, b) == IF a < b THEN a ELSE b

(***************************************************************************)
(* Status (src/ehtml.go:17-26).                                            *)
(***************************************************************************)
StatusInternalServerError == 500
StatusOK == 200

Digit(d) ==
    CASE d = 0 -> "0" [] d = 1 -> "1" [] d = 2 -> "2" [] d = 3 -> "3"
      [] d = 4 -> "4" [] d = 5 -> "5" [] d = 6 -> "6" [] d = 7 -> "7"
      [] d = 8 -> "8" [] d = 9 -> "9"

RECURSIVE Digits(_)
Digits(n) == IF n < 10 THEN Digit(n) ELSE Digits(n \div 10) \o Digit(n % 10)

\* strconv.Itoa
Itoa(n) == IF n < 0 THEN <<"-" \o Digits(0 - n)>> ELSE <<Digits(n)>>

\* Status.toA
toA(s) == Itoa(s)

\* Status.String: http.StatusText, the empty string for an unknown code
StatusText(s) ==
    CASE s = 100 -> <<"Continue">>
      [] s = 101 -> <<"Switching Protocols">>
      [] s = 102 -> <<"Processing">>
      [] s = 103 -> <<"Early Hints">>
      [] s = 200 -> <<"OK">>
      [] s = 201 -> <<"Created">>
      [] s = 202 -> <<"Accepted">>
      [] s = 203 -> <<"Non-Authoritative Information">>
      [] s = 204 -> <<"No Content">>
      [] s = 205 -> <<"Reset Content">>
      [] s = 206 -> <<"Partial Content">>
      [] s = 207 -> <<"Multi-Status">>
      [] s = 208 -> <<"Already Reported">>
      [] s = 226 -> <<"IM Used">>
      [] s = 300 -> <<"Multiple Choices">>
      [] s = 301 -> <<"Moved Permanently">>
      [] s = 302 -> <<"Found">>
      [] s = 303 -> <<"See Other">>
      [] s = 304 -> <<"Not Modified">>
      [] s = 305 -> <<"Use Proxy">>
      [] s = 307 -> <<"Temporary Redirect">>
      [] s = 308 -> <<"Permanent Redirect">>
      [] s = 400 -> <<"Bad Request">>
      [] s = 401 -> <<"Unauthorized">>
      [] s = 402 -> <<"Payment Required">>
      [] s = 403 -> <<"Forbidden">>
      [] s = 404 -> <<"Not Found">>
      [] s = 405 -> <<"Method Not Allowed">>
      [] s = 406 -> <<"Not Acceptable">>
      [] s = 407 -> <<"Proxy Authentication Required">>
      [] s = 408 -> <<"Request Timeout">>
      [] s = 409 -> <<"Conflict">>
      [] s = 410 -> <<"Gone">>
      [] s = 411 -> <<"Length Required">>
      [] s = 412 -> <<"Precondition Failed">>
      [] s = 413 -> <<"Request Entity Too Large">>
      [] s = 414 -> <<"Request URI Too Long">>
      [] s = 415 -> <<"Unsupported Media Type">>
      [] s = 416 -> <<"Requested Range Not Satisfiable">>
      [] s = 417 -> <<"Expectation Failed">>
      [] s = 418 -> <<"I", "'", "m a teapot">>
      [] s = 421 -> <<"Misdirected Request">>
      [] s = 422 -> <<"Unprocessable Entity">>
      [] s = 423 -> <<"Locked">>
      [] s = 424 -> <<"Failed Dependency">>
      [] s = 425 -> <<"Too Early">>
      [] s = 426 -> <<"Upgrade Required">>
      [] s = 428 -> <<"Precondition Required">>
      [] s = 429 -> <<"Too Many Requests">>
      [] s = 431 -> <<"Request Header Fields Too Large">>
      [] s = 451 -> <<"Unavailable For Legal Reasons">>
      [] s = 500 -> <<"Internal Server Error">>
      [] s = 501 -> <<"Not Implemented">>
      [] s = 502 -> <<"Bad Gateway">>
      [] s = 503 -> <<"Service Unavailable">>
      [] s = 504 -> <<"Gateway Timeout">>
      [] s = 505 -> <<"HTTP Version Not Supported">>
      [] s = 506 -> <<"Variant Also Negotiates">>
      [] s = 507 -> <<"Insufficient Storage">>
      [] s = 508 -> <<"Loop Detected">>
      [] s = 510 -> <<"Not Extended">>
      [] s = 511 -> <<"Network Authentication Required">>
      [] OTHER -> <<>>

(***************************************************************************)
(* Data (src/ehtml.go:40-57).  Req is opaque and left out.                 *)
(***************************************************************************)
\* a String that leaves the space out when there is no status text
StringNoGap(d) ==
    IF StatusText(d.Code) = <<>> THEN Itoa(d.Code) \o <<": ">> \o d.Msg
    ELSE Itoa(d.Code) \o <<" ">> \o StatusText(d.Code) \o <<": ">> \o d.Msg

\* Data.String: fmt.Sprintf("%d %s: %s", d.Code, d.Code, d.Msg)
String(d) == Itoa(d.Code) \o <<" ">> \o StatusText(d.Code) \o <<": ">> \o d.Msg

(***************************************************************************)
(* Templates.  A tree is the sequence of nodes of a parsed template, or    *)
(* NoTree for a name that was created but never parsed.  A template is a   *)
(* name and a tree; NoTmpl is the nil *template.Template.                  *)
(***************************************************************************)
Tree(nodes) == [parsed |-> TRUE, nodes |-> nodes]
NoTree == [parsed |-> FALSE, nodes |-> <<>>]
NoTmpl == [nil |-> TRUE, name |-> "", tree |-> NoTree, builtin |-> FALSE]

TextNode(s) == [t |-> "text", v |-> s]
FieldNode(f) == [t |-> "field", v |-> f]

\* html/template's escaper for a string value in element or RCDATA content
EscapeChunk(c) ==
    CASE c = "<" -> "&lt;"
      [] c = ">" -> "&gt;"
      [] c = "&" -> "&amp;"
      [] c = "'" -> "&#39;"
      [] c = "\"" -> "&#34;"
      [] c = "+" -> "&#43;"
      [] OTHER -> c

HTMLEscape(text) == [i \in 1..Len(text) |-> EscapeChunk(text[i])]

\* DefaultTmpl, parsed
DefaultTree ==
  Tree(
    << TextNode("<!DOCTYPE html>\n<html lang=\"en\">\n<head>\n\t<meta charset=\"utf-8\">\n\t<title>"),
       FieldNode("String"),
       TextNode("</title>\n</head>\n<body>\n\t<h1>"),
       FieldNode("Status.Int"),
       TextNode(" "),
       FieldNode("Status"),
       TextNode("</h1>\n\t<p>"),
       FieldNode("Message"),
       TextNode("</p>\n</body>\n</html>") >>)

\* defTmpl
defTmpl == [nil |-> FALSE, name |-> "error", tree |-> DefaultTree, builtin |-> TRUE]

\* evaluation of one {{ .Field }} against a *Data: the escaped value, or
\* an error for a field that *Data does not have
EvalField(f, d) ==
    CASE f = "String" -> [out |-> HTMLEscape(String(d)), err |-> NilErr]
      [] f = "Status.Int" -> [out |-> Itoa(d.Code), err |-> NilErr]
      [] f = "Status" -> [out |-> HTMLEscape(StatusText(d.Code)), err |-> NilErr]
      [] f = "Message" -> [out |-> HTMLEscape(d.Msg), err |-> NilErr]
      [] OTHER -> [out |-> <<>>, err |-> ErrMissingField]

\* the walk of a tree: text nodes and field values are written as they are
\* met, and the walk stops at the first error with the output so far
RECURSIVE Walk(_, _, _)
Walk(nodes, d, out) ==
    IF nodes = <<>> THEN [out |-> out, err |-> NilErr]
    ELSE LET n == Head(nodes) IN
         IF n.t = "text" THEN Walk(Tail(nodes), d, Append(out, n.v))
         ELSE LET r == EvalField(n.v, d) IN
              IF r.err # NilErr THEN [out |-> out, err |-> r.err]
              ELSE Walk(Tail(nodes), d, out \o r.out)

\* (*template.Template).Execute: what it writes and the error it returns
Execute(tmpl, d) ==
    IF ~tmpl.tree.parsed THEN [out |-> <<>>, err |-> ErrIncomplete]
    ELSE Walk(tmpl.tree.nodes, d, <<>>)

(***************************************************************************)
(* Template sets (the values of Pages.Tmpl): nil, or the map from the      *)
(* names the set holds to their trees.                                     *)
(***************************************************************************)
TmplSet(map) == [nil |-> FALSE, set |-> map]
NilSet == [nil |-> TRUE, set |-> <<>>]

Names == {"404", "error", "wrong"}

\* the tree parsed for each name of the plain sets
TreeOf(name) ==
    CASE name = "404" -> Tree(<<TextNode("404 template")>>)
      [] name = "error" -> Tree(<<TextNode("Generic template")>>)
      [] OTHER -> Tree(<<TextNode("Wrong template")>>)

\* every set of plain templates over Names (testTmpl and wrongTmpl of the
\* tests among them)
PlainSets == { TmplSet([n \in S |-> TreeOf(n)]) : S \in (SUBSET Names) \ {{}} }

\* errTmpl of TestPages_Render: template.New("error").Parse("{{ .Missing }}")
errTmpl == TmplSet([n \in {"error"} |-> Tree(<<FieldNode("Missing")>>)])

\* a code-specific page that fails after it has written output
partialTmpl ==
    TmplSet([n \in {"404", "error"} |->
        IF n = "404"
        THEN Tree(<<TextNode("<h1>"), FieldNode("Status.Int"), FieldNode("Missing")>>)
        ELSE Tree(<<TextNode("<p>"), FieldNode("Message"), TextNode("</p>")>>)])

\* template.New("error") that was never parsed: the name is there, the tree
\* is not
incompleteTmpl == TmplSet([n \in {"error"} |-> NoTree])

\* {{ define "error" }}{{ end }}: a page without output
emptyTmpl == TmplSet([n \in {"error"} |-> Tree(<<>>)])

TmplSets == {NilSet} \cup PlainSets \cup {errTmpl, partialTmpl, incompleteTmpl, emptyTmpl}

\* (*template.Template).Lookup
Lookup(tmplSet, name) ==
    IF name \in DOMAIN tmplSet.set
    THEN [nil |-> FALSE, name |-> name, tree |-> tmplSet.set[name], builtin |-> FALSE]
    ELSE NoTmpl

\* Pages.template that never looks for the generic "error" template
templateNoGeneric(tmplSet, s) ==
    IF tmplSet.nil THEN defTmpl
    ELSE IF ~Lookup(tmplSet, Flatten(toA(s))).nil THEN Lookup(tmplSet, Flatten(toA(s)))
    ELSE defTmpl

\* Pages.template with the nil test the wrong way round
templateNilInverted(tmplSet, s) ==
    IF ~tmplSet.nil THEN defTmpl
    ELSE IF ~Lookup(tmplSet, Flatten(toA(s))).nil THEN Lookup(tmplSet, Flatten(toA(s)))
    ELSE IF ~Lookup(tmplSet, "error").nil THEN Lookup(tmplSet, "error")
    ELSE defTmpl

\* Pages.template that looks for "error" before the code
templateErrorFirst(tmplSet, s) ==
    IF tmplSet.nil THEN defTmpl
    ELSE IF ~Lookup(tmplSet, "error").nil THEN Lookup(tmplSet, "error")
    ELSE IF ~Lookup(tmplSet, Flatten(toA(s))).nil THEN Lookup(tmplSet, Flatten(toA(s)))
    ELSE defTmpl

\* Pages.template
template(tmplSet, s) ==
    IF tmplSet.nil THEN defTmpl
    ELSE IF ~Lookup(tmplSet, Flatten(toA(s))).nil THEN Lookup(tmplSet, Flatten(toA(s)))
    ELSE IF ~Lookup(tmplSet, "error").nil THEN Lookup(tmplSet, "error")
    ELSE defTmpl

(***************************************************************************)
(* bytes.Buffer: the bytes written and the read offset.                    *)
(***************************************************************************)
EmptyBuffer == [buf |-> <<>>, off |-> 0]

BufLen(b) == Len(b.buf) - b.off

BufWrite(b, data) == [b EXCEPT !.buf = @ \o data]

\* a Reset that truncates to the first chunk
BufResetTruncate(b) == [buf |-> SubSeq(b.buf, 1, Min(1, Len(b.buf))), off |-> 0]

\* a Reset that rewinds the read offset and keeps the bytes
BufResetRewind(b) == [b EXCEPT !.off = 0]

\* (*bytes.Buffer).Reset
BufReset(b) == EmptyBuffer

(***************************************************************************)
(* The response sink (http.ResponseWriter): the status it has committed    *)
(* (0 for none), the body bytes it has accepted, the calls it has seen     *)
(* with their arguments and the error of its last Write.                   *)
(***************************************************************************)
NewResponse == [code |-> 0, body |-> <<>>, log |-> <<>>, werr |-> NilErr]

\* ResponseWriter.WriteHeader: the first call commits the status
WriteHeader(r, code) ==
    [r EXCEPT !.code = IF @ = 0 THEN code ELSE @,
              !.log = Append(@, <<"WriteHeader", code>>)]

\* ResponseWriter.Write: a sink that fails accepts at most `short` chunks
\* and returns ErrClosedPipe (short = 0 is errorWriter of the tests)
SinkWrite(r, data, fail, short) ==
    LET n == IF fail THEN Min(short, Len(data)) ELSE Len(data)
        e == IF fail THEN ErrClosedPipe ELSE NilErr
    IN [w |-> [r EXCEPT !.code = IF @ = 0 THEN StatusOK ELSE @,
                        !.body = @ \o SubSeq(data, 1, n),
                        !.log = Append(@, <<"Write", data>>),
                        !.werr = e],
        n |-> n, err |-> e]

\* (*bytes.Buffer).WriteTo
WriteTo(b, r, fail, short) ==
    IF BufLen(b) > 0
    THEN LET x == SinkWrite(r, SubSeq(b.buf, b.off + 1, Len(b.buf)), fail, short)
             b2 == [b EXCEPT !.off = @ + x.n]
         IN IF x.err # NilErr THEN [b |-> b2, w |-> x.w, err |-> x.err]
            ELSE IF x.n # BufLen(b) THEN [b |-> b2, w |-> x.w, err |-> ErrShortWrite]
            ELSE [b |-> BufReset(b2), w |-> x.w, err |-> NilErr]
    ELSE [b |-> BufReset(b), w |-> r, err |-> NilErr]

\* RenderError, formatted with the Provider: fmt.Sprintf(RenderError, dp)
RenderError(d) == <<"500 Internal server error. While handling:\n">> \o String(d)

(***************************************************************************)
(* bufPool (src/ehtml.go:105-122).  The sync.Pool is a bag of buffer       *)
(* instances: pool[id] is the number of times instance id rests in it.     *)
(***************************************************************************)
\* a Get that leaves the instance it hands out in the pool
PoolGetKeep(pl, id) == pl

\* bufPool.Get, the pool's side: the instance handed out leaves the pool
PoolGet(pl, id) == [pl EXCEPT ![id] = @ - 1]

\* a Put without b.Reset()
PoolPutNoReset(bs, pl, id) ==
    [bufs |-> bs, pool |-> [pl EXCEPT ![id] = @ + 1]]

\* a Put that hands the instance to the pool twice
PoolPutTwice(bs, pl, id) ==
    [bufs |-> [bs EXCEPT ![id] = BufReset(@)],
     pool |-> [pl EXCEPT ![id] = @ + 2]]

\* bufPool.Put: b.Reset(), then p.p.Put(b)
PoolPut(bs, pl, id) ==
    [bufs |-> [bs EXCEPT ![id] = BufReset(@)],
     pool |-> [pl EXCEPT ![id] = @ + 1]]

(***************************************************************************)
(* Pages.Render (src/ehtml.go:131-147), the two ways it answers.  sm is    *)
(* what the sink does with the Write it receives.                          *)
(***************************************************************************)
ShortWrites == {0, 1}    \* the chunks a failing sink accepts before it fails

SinkModes ==
    {[fail |-> FALSE, short |-> 0]} \cup {[fail |-> TRUE, short |-> k] : k \in ShortWrites}

\* lines 136-139 answering with the context's own status
RenderFailOwnCode(b, r, d, err, sm) ==
    LET h == WriteHeader(r, d.Code)
        x == SinkWrite(h, RenderError(d), sm.fail, sm.short)
    IN [w |-> x.w, ret |-> Errorf(TemplatePrefix, err)]

\* lines 136-139 returning the error of the fallback write when there is one
RenderFailSinkErr(b, r, d, err, sm) ==
    LET h == WriteHeader(r, StatusInternalServerError)
        x == SinkWrite(h, RenderError(d), sm.fail, sm.short)
    IN [w |-> x.w,
        ret |-> IF x.err # NilErr THEN Errorf(WritePrefix, x.err)
                ELSE Errorf(TemplatePrefix, err)]

\* lines 136-139 not reporting the failure
RenderFailSwallow(b, r, d, err, sm) ==
    LET h == WriteHeader(r, StatusInternalServerError)
        x == SinkWrite(h, RenderError(d), sm.fail, sm.short)
    IN [w |-> x.w, ret |-> NilErr]

\* lines 136-139 flushing what the template wrote before the fallback text
RenderFailFlush(b, r, d, err, sm) ==
    LET h == WriteHeader(r, StatusInternalServerError)
        y == WriteTo(b, h, sm.fail, sm.short)
        x == SinkWrite(y.w, RenderError(d), sm.fail, sm.short)
    IN [w |-> x.w, ret |-> Errorf(TemplatePrefix, err)]

\* lines 136-139: the template failed with err, b holds what it wrote
RenderFail(b, r, d, err, sm) ==
    LET h == WriteHeader(r, StatusInternalServerError)
        x == SinkWrite(h, RenderError(d), sm.fail, sm.short)
    IN [w |-> x.w, ret |-> Errorf(TemplatePrefix, err)]

\* lines 142-146 answering 200 whatever the context says
RenderPageStatusOK(b, r, d, sm) ==
    LET h == WriteHeader(r, StatusOK)
        x == WriteTo(b, h, sm.fail, sm.short)
    IN [b |-> x.b, w |-> x.w,
        ret |-> IF x.err # NilErr THEN Errorf(WritePrefix, x.err) ELSE NilErr]

\* lines 142-146 not looking at the error of WriteTo
RenderPageDropErr(b, r, d, sm) ==
    LET h == WriteHeader(r, d.Code)
        x == WriteTo(b, h, sm.fail, sm.short)
    IN [b |-> x.b, w |-> x.w, ret |-> NilErr]

\* lines 142-146 writing the body before the header
RenderPageBodyFirst(b, r, d, sm) ==
    LET x == WriteTo(b, r, sm.fail, sm.short)
        h == WriteHeader(x.w, d.Code)
    IN [b |-> x.b, w |-> h,
        ret |-> IF x.err # NilErr THEN Errorf(WritePrefix, x.err) ELSE NilErr]

\* lines 142-146: the template wrote its page into b
RenderPage(b, r, d, sm) ==
    LET h == WriteHeader(r, d.Code)
        x == WriteTo(b, h, sm.fail, sm.short)
    IN [b |-> x.b, w |-> x.w,
        ret |-> IF x.err # NilErr THEN Errorf(WritePrefix, x.err) ELSE NilErr]

(***************************************************************************)
(* State.                                                                  *)
(***************************************************************************)
Codes == {404, 400, 900}
Msgs == {<<"Foo bar">>, <<"a", "<", "b">>}
NoData == [Code |-> 0, Msg |-> <<>>]

VARIABLES
    Tmpl,      \* Pages.Tmpl
    pool,      \* buffers.p: the bag of pooled buffer instances
    bufs,      \* the content of every buffer instance
    pc,        \* where each Render call stands
    dp,        \* its Provider (a *Data)
    w,         \* its http.ResponseWriter
    buf,       \* the buffer instance it holds, NoBuf for none
    pooled,    \* whether the pool had that instance (ok at line 110)
    sel,       \* the template p.template(dp.Status()) gave it
    execErr,   \* the error of its template's Execute
    ret        \* the error it returns

vars == <<Tmpl, pool, bufs, pc, dp, w, buf, pooled, sel, execErr, ret>>

Init ==
    /\ Tmpl \in TmplSets
    /\ pool = [id \in BufIds |-> 0]
    /\ bufs = [id \in BufIds |-> EmptyBuffer]
    /\ pc = [p \in Renders |-> "idle"]
    /\ dp = [p \in Renders |-> NoData]
    /\ w = [p \in Renders |-> NewResponse]
    /\ buf = [p \in Renders |-> NoBuf]
    /\ pooled = [p \in Renders |-> FALSE]
    /\ sel = [p \in Renders |-> NoTmpl]
    /\ execErr = [p \in Renders |-> NilErr]
    /\ ret = [p \in Renders |-> NilErr]

\* the instances no render holds and the pool does not keep
Free == {id \in BufIds : pool[id] = 0 /\ \A q \in Renders : buf[q] # id}

\* a handler calls p.Render(w, dp) with a fresh response
Call(p, codes, msgs) ==
    /\ pc[p] = "idle"
    /\ \E c \in codes, m \in msgs : dp' = [dp EXCEPT ![p] = [Code |-> c, Msg |-> m]]
    /\ w' = [w EXCEPT ![p] = NewResponse]
    /\ pc' = [pc EXCEPT ![p] = "get"]
    /\ UNCHANGED <<Tmpl, pool, bufs, buf, pooled, sel, execErr, ret>>

\* line 132, buffers.Get() finds an instance in the pool
GetPooled(p) ==
    /\ pc[p] = "get"
    /\ \E id \in BufIds :
        /\ pool[id] > 0
        /\ pool' = PoolGet(pool, id)
        /\ buf' = [buf EXCEPT ![p] = id]
    /\ pooled' = [pooled EXCEPT ![p] = TRUE]
    /\ pc' = [pc EXCEPT ![p] = "exec"]
    /\ UNCHANGED <<Tmpl, bufs, dp, w, sel, execErr, ret>>

\* line 132, the pool gives nothing and buffers.Get() allocates
GetNew(p) ==
    /\ pc[p] = "get"
    /\ Free # {}
    /\ LET id == CHOOSE i \in Free : \A j \in Free : i <= j IN
        /\ bufs' = [bufs EXCEPT ![id] = EmptyBuffer]
        /\ buf' = [buf EXCEPT ![p] = id]
    /\ pooled' = [pooled EXCEPT ![p] = FALSE]
    /\ pc' = [pc EXCEPT ![p] = "exec"]
    /\ UNCHANGED <<Tmpl, pool, dp, w, sel, execErr, ret>>

\* line 135, p.template(dp.Status()).Execute(buf, dp)
Exec(p) ==
    /\ pc[p] = "exec"
    /\ LET t == template(Tmpl, dp[p].Code)
           r == Execute(t, dp[p])
       IN
        /\ sel' = [sel EXCEPT ![p] = t]
        /\ bufs' = [bufs EXCEPT ![buf[p]] = BufWrite(@, r.out)]
        /\ execErr' = [execErr EXCEPT ![p] = r.err]
        /\ pc' = [pc EXCEPT ![p] = IF r.err # NilErr THEN "fail" ELSE "page"]
    /\ UNCHANGED <<Tmpl, pool, dp, w, buf, pooled, ret>>

\* lines 136-139
RespondError(p) ==
    /\ pc[p] = "fail"
    /\ \E sm \in SinkModes :
        LET x == RenderFail(bufs[buf[p]], w[p], dp[p], execErr[p], sm) IN
        /\ w' = [w EXCEPT ![p] = x.w]
        /\ ret' = [ret EXCEPT ![p] = x.ret]
    /\ pc' = [pc EXCEPT ![p] = "put"]
    /\ UNCHANGED <<Tmpl, pool, bufs, dp, buf, pooled, sel, execErr>>

\* lines 142-146
RespondPage(p) ==
    /\ pc[p] = "page"
    /\ \E sm \in SinkModes :
        LET x == RenderPage(bufs[buf[p]], w[p], dp[p], sm) IN
        /\ bufs' = [bufs EXCEPT ![buf[p]] = x.b]
        /\ w' = [w EXCEPT ![p] = x.w]
        /\ ret' = [ret EXCEPT ![p] = x.ret]
    /\ pc' = [pc EXCEPT ![p] = "put"]
    /\ UNCHANGED <<Tmpl, pool, dp, buf, pooled, sel, execErr>>

\* line 133, the deferred buffers.Put(buf) runs as Render returns
Put(p) ==
    /\ pc[p] = "put"
    /\ LET x == PoolPut(bufs, pool, buf[p]) IN
        /\ bufs' = x.bufs
        /\ pool' = x.pool
    /\ buf' = [buf EXCEPT ![p] = NoBuf]
    /\ pooled' = [pooled EXCEPT ![p] = FALSE]
    /\ pc' = [pc EXCEPT ![p] = "done"]
    /\ UNCHANGED <<Tmpl, dp, w, sel, execErr, ret>>

\* the caller has its answer and the goroutine is free for another request
Return(p) ==
    /\ pc[p] = "done"
    /\ pc' = [pc EXCEPT ![p] = "idle"]
    /\ dp' = [dp EXCEPT ![p] = NoData]
    /\ w' = [w EXCEPT ![p] = NewResponse]
    /\ execErr' = [execErr EXCEPT ![p] = NilErr]
    /\ ret' = [ret EXCEPT ![p] = NilErr]
    /\ sel' = [sel EXCEPT ![p] = NoTmpl]
    /\ UNCHANGED <<Tmpl, pool, bufs, buf, pooled>>

\* sync.Pool may drop an item it keeps at any time
PoolDrop ==
    /\ \E id \in BufIds :
        /\ pool[id] > 0
        /\ pool' = [pool EXCEPT ![id] = @ - 1]
    /\ UNCHANGED <<Tmpl, bufs, pc, dp, w, buf, pooled, sel, execErr, ret>>

\* Requests served one after the other, by one goroutine, over every
\* template set, context and sink
Next ==
    \/ Call(1, Codes, Msgs)
    \/ GetPooled(1)
    \/ GetNew(1)
    \/ Exec(1)
    \/ RespondError(1)
    \/ RespondPage(1)
    \/ Put(1)
    \/ Return(1)
    \/ PoolDrop

Spec == Init /\ [][Next]_vars

\* A goroutine that is in Render goes on: Get does not block, Execute and
\* the sink's Write return, and the deferred Put runs when Render returns.
\* Whether another request arrives is left open.
Fairness ==
    /\ WF_vars(GetPooled(1) \/ GetNew(1))
    /\ WF_vars(Exec(1))
    /\ WF_vars(RespondError(1))
    /\ WF_vars(RespondPage(1))
    /\ WF_vars(Put(1))

SpecFair == Spec /\ Fairness

\* Requests served one after the other whose pages and fallback texts carry
\* the summary dp.String(): the default page has it in its title, the
\* fallback text ends with it
SummarySets == {NilSet, errTmpl}
SummaryCodes == {400, 404, 418, 900}
SummaryMsgs == {<<"Parsing form data">>, <<"Foo bar">>, <<"Something", "'", "s missing">>}

InitSummary ==
    /\ Tmpl \in SummarySets
    /\ Init

NextSummary ==
    \/ Call(1, SummaryCodes, SummaryMsgs)
    \/ GetPooled(1)
    \/ GetNew(1)
    \/ Exec(1)
    \/ RespondError(1)
    \/ RespondPage(1)
    \/ Put(1)
    \/ Return(1)
    \/ PoolDrop

SpecSummary == InitSummary /\ [][NextSummary]_vars

\* Requests served concurrently by NumRenders goroutines that share the
\* pool, over the template sets and contexts of ConcSets, ConcCodes, ConcMsgs
ConcSets == {partialTmpl}
ConcCodes == {404, 400}
ConcMsgs == {<<"Foo bar">>}

InitConc ==
    /\ Tmpl \in ConcSets
    /\ Init

NextConc ==
    \/ \E p \in Renders :
        \/ Call(p, ConcCodes, ConcMsgs)
        \/ GetPooled(p)
        \/ GetNew(p)
        \/ Exec(p)
        \/ RespondError(p)
        \/ RespondPage(p)
        \/ Put(p)
        \/ Return(p)
    \/ PoolDrop

SpecConc == InitConc /\ [][NextConc]_vars

TypeOK ==
    /\ Tmpl \in TmplSets
    /\ \A p \in Renders : pc[p] \in {"idle", "get", "exec", "fail", "page", "put", "done"}
    /\ \A p \in Renders : buf[p] \in BufIds \cup {NoBuf}

(***************************************************************************)
(* Properties.                                                             *)
(***************************************************************************)
\* the render has its template
Selected(p) == pc[p] \in {"fail", "page", "put", "done"}

\* the render has answered
Answered(p) == pc[p] \in {"put", "done"}

\* the decimal name of the status codes of the model
CodeName(c) ==
    CASE c = 404 -> "404" [] c = 400 -> "400" [] c = 900 -> "900" [] c = 418 -> "418"
      [] OTHER -> "?"

Has(name) == ~Tmpl.nil /\ name \in DOMAIN Tmpl.set

\* the template of the set under a name
Named(name) == [nil |-> FALSE, name |-> name, tree |-> Tmpl.set[name], builtin |-> FALSE]

ExecErrors == {ErrMissingField, ErrIncomplete}

IsTemplateError(e) == e # NilErr /\ Head(e) = TemplatePrefix

IsPrefix(a, b) == Len(a) <= Len(b) /\ a = SubSeq(b, 1, Len(a))

\* the data of the Write calls the sink has seen
Written(r) == [i \in {j \in 1..Len(r.log) : r.log[j][1] = "Write"} |-> r.log[i][2]]

FallbackText(d) ==
    "500 Internal server error. While handling:\n" \o Flatten(String(d))

defaultTmplOut ==
    "<!DOCTYPE html>\n<html lang=\"en\">\n<head>\n\t<meta charset=\"utf-8\">\n\t<title>404 Not Found: Foo bar</title>\n</head>\n<body>\n\t<h1>404 Not Found</h1>\n\t<p>Foo bar</p>\n</body>\n</html>"

\* C1: when the set holds both a template named by the decimal string of the
\* code and one named "error", the template selected is the one named by the
\* code, not "error" and not the built-in default.
C1_CodeSpecificWins ==
    \A p \in Renders :
        (Selected(p) /\ Has(CodeName(dp[p].Code)) /\ Has("error"))
            => sel[p] = Named(CodeName(dp[p].Code))

C1_Witness ==
    /\ Selected(1)
    /\ dp[1].Code = 404
    /\ Has("404") /\ Has("error")
    /\ sel[1].name = "404"

\* C2: when the set is not nil and holds "error" but no template named by a
\* status code, the template selected is "error" of the set for every code.
C2_GenericForAnyCode ==
    \A p \in Renders :
        (Selected(p) /\ Has("error") /\ \A c \in Codes : ~Has(CodeName(c)))
            => sel[p] = Named("error")

C2_Witness ==
    /\ Selected(1)
    /\ dp[1].Code = 900
    /\ DOMAIN Tmpl.set = {"error"}
    /\ sel[1].name = "error" /\ ~sel[1].builtin

\* C3: the built-in default is selected exactly when Tmpl is nil or holds
\* neither the code's name nor "error"; otherwise the template selected is
\* one of the set.
C3_DefaultExactlyWhenNothingFound ==
    \A p \in Renders :
        Selected(p) =>
            /\ (sel[p] = defTmpl) <=>
                   (Tmpl.nil \/ (~Has(CodeName(dp[p].Code)) /\ ~Has("error")))
            /\ (sel[p] # defTmpl) =>
                   (Has(sel[p].name) /\ sel[p] = Named(sel[p].name))

C3_Witness ==
    /\ Selected(1)
    /\ ~Tmpl.nil
    /\ DOMAIN Tmpl.set = {"wrong"}
    /\ sel[1] = defTmpl

\* C4: when the template executed and the sink took the write, the response
\* has the context's status code, its body is the output of the selected
\* template for the context, and Render returns nil.
C4_SuccessAnswer ==
    \A p \in Renders :
        (Answered(p) /\ execErr[p] = NilErr /\ w[p].werr = NilErr) =>
            /\ w[p].code = dp[p].Code
            /\ w[p].log[1] = <<"WriteHeader", dp[p].Code>>
            /\ w[p].body = Execute(sel[p], dp[p]).out
            /\ ret[p] = NilErr

C4_Witness ==
    /\ Answered(1)
    /\ Tmpl.nil
    /\ dp[1] = [Code |-> 404, Msg |-> <<"Foo bar">>]
    /\ w[1].code = 404
    /\ Flatten(w[1].body) = defaultTmplOut
    /\ ret[1] = NilErr

\* C5: when the template failed, the response status is 500 whatever the
\* context's code, the body written is the fixed text followed by the
\* context's summary, and Render returns an error that wraps the failure.
C5_FailureAnswer ==
    \A p \in Renders :
        (Answered(p) /\ execErr[p] # NilErr) =>
            /\ w[p].code = 500
            /\ Len(w[p].log) = 2
            /\ w[p].log[1] = <<"WriteHeader", 500>>
            /\ w[p].log[2][1] = "Write"
            /\ Flatten(w[p].log[2][2]) = FallbackText(dp[p])
            /\ (w[p].werr = NilErr => Flatten(w[p].body) = FallbackText(dp[p]))
            /\ ret[p] # NilErr
            /\ ErrorsIs(ret[p], execErr[p])

C5_Witness ==
    /\ Answered(1)
    /\ execErr[1] = ErrMissingField
    /\ dp[1] = [Code |-> 404, Msg |-> <<"Foo bar">>]
    /\ w[1].code = 500
    /\ Flatten(w[1].body) = "500 Internal server error. While handling:\n404 Not Found: Foo bar"
    /\ ErrorsIs(ret[1], ErrMissingField)

\* C6: when the template executed and the sink failed the body write, Render
\* returns an error that wraps the sink's error and is none of the errors
\* it returns for a template failure.
C6_WriteErrorDistinct ==
    \A p \in Renders :
        (Answered(p) /\ execErr[p] = NilErr /\ w[p].werr # NilErr) =>
            /\ ret[p] # NilErr
            /\ ErrorsIs(ret[p], w[p].werr)
            /\ ~IsTemplateError(ret[p])
            /\ \A e \in ExecErrors : ~ErrorsIs(ret[p], e)

C6_Witness ==
    /\ Answered(1)
    /\ execErr[1] = NilErr
    /\ w[1].werr = ErrClosedPipe
    /\ ErrorsIs(ret[1], ErrClosedPipe)

\* C7 as stated: a failure of the sink's body write reaches the caller, for
\* the page and for the fallback text alike.
C7_SinkFailureAlwaysPropagated ==
    \A p \in Renders :
        (Answered(p) /\ w[p].werr # NilErr) => ErrorsIs(ret[p], w[p].werr)

\* C7, amended: a failure of the sink's write of the page reaches the
\* caller; a failure of its write of the fallback text is dropped, and the
\* caller gets the template's failure alone.
C7_SinkFailurePropagatedForPage ==
    \A p \in Renders :
        (Answered(p) /\ w[p].werr # NilErr) =>
            IF execErr[p] = NilErr
            THEN ErrorsIs(ret[p], w[p].werr)
            ELSE /\ ret[p] = Errorf(TemplatePrefix, execErr[p])
                 /\ ~ErrorsIs(ret[p], w[p].werr)

C7_Witness ==
    /\ Answered(1)
    /\ execErr[1] # NilErr
    /\ w[1].werr = ErrClosedPipe
    /\ ret[1] = <<TemplatePrefix>> \o execErr[1]

\* C8 as stated: no template problem gives an error outcome, Render always
\* serves the matched page or the default one.
C8_TemplatesNeverError ==
    \A p \in Renders :
        Answered(p) => (execErr[p] = NilErr /\ ~IsTemplateError(ret[p]))

\* C8, amended: a missing template falls through to "error" or the default
\* and selection gives a template in every case; the default executes
\* without error; a template that is found and fails is not replaced by the
\* default: the answer is 500 with the fallback text, not the default page,
\* and Render returns a template error exactly then.
C8_MissingDegradesFailingErrors ==
    \A p \in Renders :
        /\ Selected(p) =>
            /\ ~sel[p].nil
            /\ sel[p].builtin => execErr[p] = NilErr
            /\ ~Has(CodeName(dp[p].Code)) =>
                   (sel[p] = defTmpl \/ (Has("error") /\ sel[p] = Named("error")))
        /\ Answered(p) =>
            /\ IsTemplateError(ret[p]) <=> (execErr[p] # NilErr)
            /\ execErr[p] # NilErr =>
                /\ w[p].code = 500
                /\ \A i \in DOMAIN Written(w[p]) :
                       Written(w[p])[i] # Execute(defTmpl, dp[p]).out

C8_Witness ==
    /\ Answered(1)
    /\ Has("error") /\ ~Tmpl.set["error"].parsed
    /\ execErr[1] = ErrIncomplete
    /\ w[1].code = 500
    /\ IsTemplateError(ret[1])

\* the body this render is to send: the output of its own template for its
\* own context, or the fallback text for its own context
OwnBody(p) ==
    IF execErr[p] # NilErr THEN RenderError(dp[p])
    ELSE Execute(template(Tmpl, dp[p].Code), dp[p]).out

\* C9: whatever the renders before it did with the buffer it got, a render
\* hands the sink its own body and nothing else, and the body the response
\* holds is a prefix of it.
C9_NoResidue ==
    \A p \in Renders :
        /\ IsPrefix(w[p].body, OwnBody(p))
        /\ \A i \in DOMAIN Written(w[p]) : Written(w[p])[i] = OwnBody(p)

C9_Witness ==
    /\ pc[1] = "put"
    /\ pooled[1]
    /\ execErr[1] = NilErr
    /\ w[1].werr = NilErr
    /\ w[1].body # <<>>
    /\ w[1].body = OwnBody(1)

\* C10: a buffer a render holds is not in the pool and is held by no other
\* render.
C10_BufferHeldByOne ==
    \A p \in Renders :
        buf[p] # NoBuf =>
            /\ pool[buf[p]] = 0
            /\ \A q \in Renders \ {p} : buf[q] # buf[p]

C10_Witness ==
    /\ buf[1] # NoBuf /\ buf[2] # NoBuf
    /\ pooled[1] /\ pooled[2]
    /\ pc[1] = "page" /\ pc[2] = "fail"

\* C11: every buffer resting in the pool has length zero, and so has the
\* buffer a render has just got from Get, whatever the render that used it
\* before did: succeed, fail in Execute after partial output, or fail in
\* the response write.
C11_PooledBuffersEmpty ==
    /\ \A id \in BufIds : pool[id] > 0 => BufLen(bufs[id]) = 0
    /\ \A p \in Renders : pc[p] = "exec" => BufLen(bufs[buf[p]]) = 0

\* the render failed in Execute after partial output and its buffer, the
\* only one in the pool, is empty
C11_Witness ==
    /\ pc[1] = "done"
    /\ execErr[1] = ErrMissingField
    /\ Execute(sel[1], dp[1]).out # <<>>
    /\ \E id \in BufIds :
        /\ pool[id] = 1
        /\ \A j \in BufIds \ {id} : pool[j] = 0
        /\ BufLen(bufs[id]) = 0

\* C12: a render that holds a buffer gives it up only by the deferred Put,
\* after it has answered; that step puts the instance into the pool exactly
\* once, the pool gains instances in no other way, and every render that
\* has a buffer comes to the end of Render with the buffer returned.
C12_BufferReturnedOnce ==
    /\ [][ /\ \A p \in Renders :
                (buf[p] # NoBuf /\ buf'[p] # buf[p]) =>
                    /\ pc[p] = "put" /\ pc'[p] = "done"
                    /\ Len(w[p].log) >= 1
                    /\ buf'[p] = NoBuf
                    /\ pool'[buf[p]] = pool[buf[p]] + 1
           /\ \A id \in BufIds :
                pool'[id] > pool[id] =>
                    \E p \in Renders :
                        buf[p] = id /\ pc[p] = "put" /\ buf'[p] = NoBuf
         ]_vars
    /\ \A p \in Renders : (buf[p] # NoBuf) ~> (pc[p] = "done" /\ buf[p] = NoBuf)

\* the exit after a failed response write: the render is through and its
\* buffer is the one instance in the pool
C12_Witness ==
    /\ pc[1] = "done"
    /\ execErr[1] = NilErr
    /\ w[1].werr = ErrClosedPipe
    /\ buf[1] = NoBuf
    /\ \E id \in BufIds : pool[id] = 1 /\ \A j \in BufIds \ {id} : pool[j] = 0

\* the standard reason phrase of the status codes of the model, "" for a
\* code that has none
ReasonPhrase(c) ==
    CASE c = 400 -> "Bad Request" [] c = 404 -> "Not Found" [] c = 418 -> "I'm a teapot"
      [] OTHER -> ""

\* "<code> <statusText>: <message>"
Summary(d) == CodeName(d.Code) \o " " \o ReasonPhrase(d.Code) \o ": " \o Flatten(d.Msg)

\* C13: the summary Data.String gives, as the fallback text carries it, is
\* "<code> <statusText>: <message>" for every code and message, with the
\* empty status text and the space kept for a code without reason phrase.
C13_SummaryFormat ==
    \A p \in Renders :
        (Answered(p) /\ execErr[p] # NilErr) =>
            /\ Len(w[p].log) = 2
            /\ Head(w[p].log[2][2]) = "500 Internal server error. While handling:\n"
            /\ Flatten(Tail(w[p].log[2][2])) = Summary(dp[p])

C13_Witness ==
    /\ Answered(1)
    /\ execErr[1] # NilErr
    /\ dp[1] = [Code |-> 400, Msg |-> <<"Parsing form data">>]
    /\ Flatten(Tail(w[1].log[2][2])) = "400 Bad Request: Parsing form data"

\* C14: the sink is offered no byte of a template that failed: the one
\* execution's output, partial or not, stays unread in the buffer, the only
\* Write of a failing render carries the fallback text, the only Write of a
\* successful render carries the complete output, and what the sink keeps
\* is a prefix of that, all of it when the sink accepts the write.
C14_NoPartialPage ==
    /\ [](\A p \in Renders :
            LET out == Execute(sel[p], dp[p]).out
                wr == Written(w[p])
            IN
            /\ (Selected(p) /\ execErr[p] # NilErr /\ buf[p] # NoBuf) =>
                   bufs[buf[p]] = [buf |-> out, off |-> 0]
            /\ (Answered(p) /\ execErr[p] # NilErr) =>
                   /\ DOMAIN wr = {2}
                   /\ wr[2] = RenderError(dp[p])
                   /\ IsPrefix(w[p].body, RenderError(dp[p]))
                   /\ w[p].werr = NilErr => w[p].body = RenderError(dp[p])
            /\ (Answered(p) /\ execErr[p] = NilErr) =>
                   /\ \A i \in DOMAIN wr : wr[i] = out
                   /\ Cardinality(DOMAIN wr) <= 1
                   /\ IsPrefix(w[p].body, out)
                   /\ w[p].werr = NilErr => w[p].body = out)
    /\ [][\A p \in Renders :
            (pc[p] = "fail" /\ pc'[p] # "fail") =>
                /\ pc'[p] = "put"
                /\ bufs'[buf[p]] = bufs[buf[p]]
                /\ sel'[p] = sel[p] /\ execErr'[p] = execErr[p]]_vars

C14_Witness ==
    /\ pc[1] = "put"
    /\ execErr[1] = ErrMissingField
    /\ Len(Execute(sel[1], dp[1]).out) >= 2
    /\ bufs[buf[1]].buf = Execute(sel[1], dp[1]).out
    /\ w[1].werr = NilErr
    /\ w[1].body = RenderError(dp[1])

\* Render with a buffer made for the call, new(bytes.Buffer), and left to the
\* garbage collector: what it answers for a set, a context and a sink
FreshRender(set, d, sm) ==
    LET e == Execute(template(set, d.Code), d)
        b == BufWrite(EmptyBuffer, e.out)
        x == IF e.err # NilErr THEN RenderFail(b, NewResponse, d, e.err, sm)
             ELSE RenderPage(b, NewResponse, d, sm)
    IN [w |-> x.w, ret |-> x.ret]

\* how the sink of a response behaved: whether it failed the write and how
\* much it kept of it
SinkModeOf(r) ==
    [fail |-> r.werr # NilErr, short |-> IF r.werr # NilErr THEN Len(r.body) ELSE 0]

\* C15: whatever renders ran before or run beside it on the shared pool, a
\* render's response (status, body, calls on the sink) and its error are
\* those of a render of the same set and context on the same sink that
\* writes into a buffer of its own.
C15_PoolEquivalentToFresh ==
    \A p \in Renders :
        Answered(p) =>
            /\ SinkModeOf(w[p]) \in SinkModes
            /\ w[p] = FreshRender(Tmpl, dp[p], SinkModeOf(w[p])).w
            /\ ret[p] = FreshRender(Tmpl, dp[p], SinkModeOf(w[p])).ret

C15_Witness ==
    /\ pc[1] = "put" /\ pc[2] = "put"
    /\ pooled[1] /\ pooled[2]
    /\ execErr[1] = ErrMissingField /\ execErr[2] = NilErr
    /\ w[1].werr = NilErr /\ w[2].werr = NilErr
    /\ w[1].code = 500 /\ w[2].code = dp[2].Code
    /\ w[2].body = FreshRender(Tmpl, dp[2], SinkModeOf(w[2])).w.body
    /\ w[2].body # <<>>

\* the positions of the WriteHeader calls in the log of a response
HeaderCalls(r) == {i \in 1..Len(r.log) : r.log[i][1] = "WriteHeader"}

\* C16: a response has no body byte and no Write before its status; a
\* render that answered called WriteHeader once, first, with the context's
\* code when the template executed, also when the body write then failed,
\* and with 500 when it did not; once set, the status of a response does
\* not change while the call lasts.
C16_StatusOnceBeforeBody ==
    /\ [](\A p \in Renders :
            /\ (w[p].body # <<>> \/ Len(w[p].log) > 0) =>
                   /\ w[p].code # 0
                   /\ w[p].log[1][1] = "WriteHeader"
                   /\ w[p].log[1][2] = w[p].code
            /\ Answered(p) =>
                   /\ HeaderCalls(w[p]) = {1}
                   /\ w[p].code = IF execErr[p] = NilErr THEN dp[p].Code
                                  ELSE StatusInternalServerError)
    /\ [][\A p \in Renders :
            (w[p].code # 0 /\ pc'[p] # "idle") => w'[p].code = w[p].code]_vars

C16_Witness ==
    /\ Answered(1)
    /\ execErr[1] = NilErr
    /\ w[1].werr = ErrClosedPipe
    /\ ErrorsIs(ret[1], ErrClosedPipe)
    /\ dp[1].Code = 404
    /\ w[1].code = 404
    /\ HeaderCalls(w[1]) = {1}
    /\ Len(w[1].log) = 2

====
